---- MODULE Spec2Model ----
(***************************************************************************)
(* Queue processor system: QueueManager + TaskProcessor + Worker over a    *)
(* Bull queue (Redis) and the tasks / task_results tables (PostgreSQL).    *)
(*                                                                         *)
(* The durable store is `tasks` and `taskResults`; the broker is the Bull  *)
(* queue of each task type: the lists wait and paused, the sets active,    *)
(* delayed, failed, completed, the priority index and the meta-paused key. *)
(* One handler execution is split at its awaits: every database write is   *)
(* one step and may throw.                                                 *)
(***************************************************************************)
EXTENDS Integers, Sequences, FiniteSets, TLC

\* ---------------------------------------------------------------- bounds
MaxJobs == 2
MaxDbErrors == 1
MaxRetryCalls == 2
MaxOperations == 1
MaxProgressOperations == 2
MaxBackoffAttempts == 5
MaxProducerTasks == 1

\* ------------------------------------------------------ program constants
DefaultMaxRetries == 3
DefaultPriority == 5
MinPriority == 1

JobIds == 1..MaxJobs
TaskTypes == {"image_processing", "cleanup_tasks"}
Priorities == {MinPriority, DefaultPriority}
NoTask == [status |-> "none"]
NoJob == [state |-> "none"]
NoProducer == [started |-> FALSE, isRunning |-> FALSE, taskCount |-> 0, maxTasks |-> 0,
               interval |-> FALSE, first |-> FALSE]

\* config.queues, with no environment override, for the two modelled types
config ==
  [t \in TaskTypes |->
     IF t = "image_processing"
       THEN [concurrency |-> 2, maxRetries |-> 2, retryDelay |-> 10000,
             backoffType |-> "exponential"]
       ELSE [concurrency |-> 1, maxRetries |-> 1, retryDelay |-> 60000,
             backoffType |-> "fixed"]]

VARIABLES
  tasks,        \* table tasks, by id
  taskResults,  \* table task_results, rows of each task in insertion order
  jobs,         \* Bull job hash of each id: data, opts, attemptsMade, retriedOn
  wait,         \* Bull list wait of each queue; wait[1] is claimed next
  paused,       \* Bull list paused of each queue
  priority,     \* Bull priority index of each queue
  active,       \* Bull list active of each queue
  delayed,      \* Bull set delayed of each queue
  failed,       \* Bull set failed of each queue, oldest first
  completed,    \* Bull set completed of each queue
  metaPaused,   \* Bull key meta-paused of each queue
  pc,           \* position of the handler execution of each job
  loopI,        \* loop index i of simulateImageProcessing, 0 outside the handler
  dbErrors,     \* number of database errors so far
  retryCalls,   \* number of retryFailedJobs calls so far
  worker,       \* the worker process: "running", "exited" (by a signal) or "killed"
  server,       \* the API server process: "starting", "serving", "exit1" or "exit0"
  response,     \* outcome of the last call to the API: "none", an HTTP status, or
                \* "returned" / "thrown" for a direct call of addTask
  reachable,    \* whether PostgreSQL (db) and Redis (redis) can be reached
  backoffJob,   \* one Bull job followed through its failures: opts, attemptsMade,
                \* the set it is in and the delay of its last retry
  producer      \* the Producer object: whether start was called, isRunning,
                \* taskCount, the maxTasks option, whether its interval is set and
                \* whether the call of generateRandomTask made by startProducing
                \* is still to run

vars == <<tasks, taskResults, jobs, wait, paused, priority, active,
          delayed, failed, completed, metaPaused, pc, loopI, dbErrors, retryCalls, worker,
          server, response, reachable, backoffJob, producer>>

\* the API server process and its environment
apiVars == <<server, response, reachable>>

\* ------------------------------------------------------------- helpers
\* Math.pow(2, n)
RECURSIVE pow2(_)
pow2(n) == IF n = 0 THEN 1 ELSE 2 * pow2(n - 1)

\* Math.round(((i + 1) / totalOperations) * 100), for positive operands
progressOf(i, totalOperations) == (200 * (i + 1) + totalOperations) \div (2 * totalOperations)

SeqToSet(s) == {s[k] : k \in 1..Len(s)}

RECURSIVE Reverse(_)
Reverse(s) == IF s = <<>> THEN <<>> ELSE Append(Reverse(Tail(s)), Head(s))

RECURSIVE SetToSeq(_)
SetToSeq(S) == IF S = {} THEN <<>> ELSE LET x == CHOOSE y \in S : TRUE IN <<x>> \o SetToSeq(S \ {x})

InsertAt(s, pos, x) == SubSeq(s, 1, pos - 1) \o <<x>> \o SubSeq(s, pos, Len(s))

typeOf(j) == jobs[j].type

\* ------------------------------------------------------- durable store
\* TaskModel.createTask: the inserted row; attempts and progress take the
\* column defaults, max_retries is task.maxRetries || 3.
createTask(task) ==
  [type |-> task.type, priority |-> task.priority, status |-> task.status,
   attempts |-> 0, maxRetries |-> DefaultMaxRetries, progress |-> 0,
   startedAt |-> FALSE, completedAt |-> FALSE, failedAt |-> FALSE,
   result |-> FALSE, error |-> FALSE]

\* TaskModel.updateTaskStatus: status is always written, every other column
\* only when additionalData carries it. No check of the stored status.
updateTaskStatus(row, status, additionalData) ==
  LET has(f) == f \in DOMAIN additionalData IN
  [row EXCEPT
     !.status = status,
     !.startedAt = IF has("startedAt") THEN TRUE ELSE @,
     !.completedAt = IF has("completedAt") THEN TRUE ELSE @,
     !.failedAt = IF has("failedAt") THEN TRUE ELSE @,
     !.attempts = IF has("attempts") THEN additionalData.attempts ELSE @,
     !.progress = IF has("progress") THEN additionalData.progress ELSE @,
     !.result = IF has("result") THEN TRUE ELSE @,
     !.error = IF has("error") THEN TRUE ELSE @]

\* TaskModel.saveTaskResult: one row appended to task_results
saveTaskResult(rows, result) ==
  Append(rows, [success |-> result.success, attempts |-> result.attempts])

\* SELECT COUNT(*) FROM tasks WHERE status IN (...)
selectCount(statuses) ==
  Cardinality({j \in JobIds : tasks[j] # NoTask /\ tasks[j].status \in statuses})

\* getMetrics with the success rate taken over all the rows of the table
getMetrics_overAll ==
  LET total == Cardinality({j \in JobIds : tasks[j] # NoTask})
  IN [totalTasks |-> total,
      completedTasks |-> selectCount({"completed"}),
      failedTasks |-> selectCount({"failed"}),
      pendingTasks |-> selectCount({"waiting", "active", "delayed"}),
      successRate |-> IF total = 0 THEN [num |-> 0, den |-> 1]
                      ELSE [num |-> selectCount({"completed"}) * 100, den |-> total]]

\* TaskModel.getMetrics. successRate is the quotient num / den of
\* COUNT(*) FILTER (WHERE status = 'completed') * 100.0 / COUNT(*) over the
\* rows with status completed or failed, and 0 when there is no such row.
getMetrics ==
  LET finished == selectCount({"completed", "failed"})
  IN [totalTasks |-> Cardinality({j \in JobIds : tasks[j] # NoTask}),
      completedTasks |-> selectCount({"completed"}),
      failedTasks |-> selectCount({"failed"}),
      pendingTasks |-> selectCount({"waiting", "active", "delayed"}),
      successRate |-> IF finished = 0 THEN [num |-> 0, den |-> 1]
                      ELSE [num |-> selectCount({"completed"}) * 100, den |-> finished]]

\* ---------------------------------------------------------------- Bull
\* the list new or re-queued jobs go to: paused while meta-paused exists
targetIsPaused(t) == metaPaused[t]

\* priority add of Bull (addJob, updateDelaySet): ZADD to the priority index,
\* count the indexed jobs of priority <= p, insert with count - 1 list
\* entries in front
priorityCount(t, p) ==
  Cardinality({k \in priority[t] : jobs[k].priority <= p}) + 1

priorityInsert(list, count, j) ==
  IF count <= Len(list) + 1 THEN InsertAt(list, count, j)
  ELSE IF count - Len(list) <= Len(list) + 1 THEN InsertAt(list, count - Len(list), j)
  ELSE <<j>> \o list

\* LPUSH of a job without priority handling (retryJob, reprocessJob)
lpush(list, j) == Append(list, j)

\* job.retry() of every job of queue.getFailed() (most recent first): Bull
\* reprocessJob removes the job from failed, records retriedOn and LPUSHes it
\* to wait (or paused); attemptsMade is kept
RECURSIVE retryAll(_, _)
retryAll(list, failedJobs) ==
  IF failedJobs = <<>> THEN list
  ELSE retryAll(lpush(list, Head(failedJobs)), Tail(failedJobs))

\* backoffs.calculate of Bull: fixed -> delay, exponential ->
\* Math.round((Math.pow(2, attemptsMade) - 1) * delay)
calculate(backoff, attemptsMade) ==
  IF backoff.type = "fixed" THEN backoff.delay
  ELSE (pow2(attemptsMade) - 1) * backoff.delay

\* the delay of a job of queue t, whose opts.backoff addTask takes from config
backoffDelay(t, attemptsMade) ==
  calculate([type |-> config[t].backoffType, delay |-> config[t].retryDelay],
            attemptsMade)

\* ---------------------------------------------------------------- Init
\* the store, the broker and the worker after construction
InitQueues ==
  /\ tasks = [j \in JobIds |-> NoTask]
  /\ taskResults = [j \in JobIds |-> <<>>]
  /\ jobs = [j \in JobIds |-> NoJob]
  /\ wait = [t \in TaskTypes |-> <<>>]
  /\ paused = [t \in TaskTypes |-> <<>>]
  /\ priority = [t \in TaskTypes |-> {}]
  /\ active = [t \in TaskTypes |-> {}]
  /\ delayed = [t \in TaskTypes |-> {}]
  /\ failed = [t \in TaskTypes |-> <<>>]
  /\ completed = [t \in TaskTypes |-> {}]
  /\ metaPaused = [t \in TaskTypes |-> FALSE]
  /\ pc = [j \in JobIds |-> "idle"]
  /\ loopI = [j \in JobIds |-> 0]
  /\ dbErrors = 0
  /\ retryCalls = 0
  /\ worker = "running"

Init ==
  /\ InitQueues
  /\ server = "serving"
  /\ response = "none"
  /\ reachable = [db |-> TRUE, redis |-> TRUE]
  /\ backoffJob = NoJob
  /\ producer = NoProducer

\* ------------------------------------------------------------- actions
\* a database.query call that throws
dbThrows == dbErrors < MaxDbErrors /\ dbErrors' = dbErrors + 1

\* queue.add of Bull: new job hash, priority add to wait or paused
queueAdd(id, task, t) ==
  LET job == [state |-> "queued", type |-> t, priority |-> task.priority,
              attempts |-> config[t].maxRetries, attemptsMade |-> 0,
              retriedOn |-> FALSE, stalledCounter |-> 0,
              operations |-> task.operations]
      cnt == priorityCount(t, task.priority)
  IN /\ jobs' = [jobs EXCEPT ![id] = job]
     /\ priority' = [priority EXCEPT ![t] = @ \cup {id}]
     /\ IF targetIsPaused(t)
          THEN /\ paused' = [paused EXCEPT ![t] = priorityInsert(@, cnt, id)]
               /\ wait' = wait
          ELSE /\ wait' = [wait EXCEPT ![t] = priorityInsert(@, cnt, id)]
               /\ paused' = paused

\* addTask that enqueues the job before it inserts the row
addTask_enqueueFirst(t, p, ops) ==
  /\ \E id \in JobIds :
       /\ tasks[id] = NoTask /\ jobs[id] = NoJob
       /\ \A k \in JobIds : k < id => tasks[k] # NoTask \/ jobs[k] # NoJob
       /\ LET task == [type |-> t, priority |-> p, status |-> "waiting", operations |-> ops]
          IN /\ queueAdd(id, task, t)
             /\ \/ /\ tasks' = [tasks EXCEPT ![id] = createTask(task)]
                   /\ UNCHANGED dbErrors
                \/ /\ dbThrows
                   /\ UNCHANGED tasks
  /\ UNCHANGED <<taskResults, active, delayed, failed, completed,
                 metaPaused, pc, loopI, retryCalls, worker, apiVars, backoffJob, producer>>

\* QueueManager.addTask (called by POST /tasks and by the producer)
addTask(t, p, ops) ==
  /\ \E id \in JobIds :
       /\ tasks[id] = NoTask /\ jobs[id] = NoJob
       /\ \A k \in JobIds : k < id => tasks[k] # NoTask \/ jobs[k] # NoJob
       /\ LET task == [type |-> t, priority |-> p, status |-> "waiting", operations |-> ops]
          IN \/ /\ tasks' = [tasks EXCEPT ![id] = createTask(task)]
                /\ queueAdd(id, task, t)
                /\ UNCHANGED dbErrors
             \/ /\ dbThrows
                /\ UNCHANGED <<tasks, jobs, wait, paused, priority>>
  /\ UNCHANGED <<taskResults, active, delayed, failed, completed,
                 metaPaused, pc, loopI, retryCalls, worker, apiVars, backoffJob, producer>>

\* moveToActive without the concurrency limit of queue.process
moveToActive_noLimit(t) ==
  /\ worker = "running"
  /\ wait[t] # <<>>
  /\ LET j == Head(wait[t])
     IN /\ wait' = [wait EXCEPT ![t] = Tail(@)]
        /\ priority' = [priority EXCEPT ![t] = @ \ {j}]
        /\ active' = [active EXCEPT ![t] = @ \cup {j}]
        /\ pc' = [pc EXCEPT ![j] = "start"]
        /\ loopI' = [loopI EXCEPT ![j] = 0]
  /\ UNCHANGED <<tasks, taskResults, jobs, paused, delayed, failed,
                 completed, metaPaused, dbErrors, retryCalls, worker, apiVars, backoffJob, producer>>

\* Bull moveToActive: the worker takes the next job of wait (RPOPLPUSH to
\* active, ZREM from the priority index) when one of the `concurrency`
\* processing slots of queue.process is free. The handler starts.
moveToActive(t) ==
  /\ worker = "running"
  /\ wait[t] # <<>>
  /\ Cardinality(active[t]) < config[t].concurrency
  /\ LET j == Head(wait[t])
     IN /\ wait' = [wait EXCEPT ![t] = Tail(@)]
        /\ priority' = [priority EXCEPT ![t] = @ \ {j}]
        /\ active' = [active EXCEPT ![t] = @ \cup {j}]
        /\ pc' = [pc EXCEPT ![j] = "start"]
        /\ loopI' = [loopI EXCEPT ![j] = 0]
  /\ UNCHANGED <<tasks, taskResults, jobs, paused, delayed, failed,
                 completed, metaPaused, dbErrors, retryCalls, worker, apiVars, backoffJob, producer>>

handlerFrame == UNCHANGED <<jobs, wait, paused, priority, active, delayed,
                            failed, completed, metaPaused, retryCalls, worker, apiVars, backoffJob, producer>>

\* a handler that becomes active without writing startedAt
processStart_noStartedAt(j) ==
  /\ pc[j] = "start"
  /\ tasks' = [tasks EXCEPT ![j] = updateTaskStatus(@, "active",
                  [attempts |-> jobs[j].attemptsMade + 1])]
  /\ pc' = [pc EXCEPT ![j] = "simulate"]
  /\ UNCHANGED <<taskResults, loopI, dbErrors>>
  /\ handlerFrame

\* TaskProcessor.process*: updateTaskStatus(id, 'active', {startedAt, attempts})
processStart(j) ==
  /\ pc[j] = "start"
  /\ \/ /\ tasks' = [tasks EXCEPT ![j] = updateTaskStatus(@, "active",
                        [startedAt |-> TRUE, attempts |-> jobs[j].attemptsMade + 1])]
        /\ pc' = [pc EXCEPT ![j] = "simulate"]
        /\ UNCHANGED dbErrors
     \/ /\ dbThrows
        /\ pc' = [pc EXCEPT ![j] = "catch"]
        /\ UNCHANGED tasks
  /\ UNCHANGED <<taskResults, loopI>>
  /\ handlerFrame

\* the operations a handler reports progress for: data.operations.length of
\* an image task, none for a cleanup task
totalOperations(j) == IF typeOf(j) = "image_processing" THEN jobs[j].operations ELSE 0

\* simulateImageProcessing, one iteration of the loop:
\* updateTaskStatus(taskId, 'active', { progress })
simulateProgress(j) ==
  /\ pc[j] = "simulate"
  /\ loopI[j] < totalOperations(j)
  /\ \/ /\ tasks' = [tasks EXCEPT ![j] = updateTaskStatus(@, "active",
                        [progress |-> progressOf(loopI[j], totalOperations(j))])]
        /\ loopI' = [loopI EXCEPT ![j] = @ + 1]
        /\ UNCHANGED <<pc, dbErrors>>
     \/ /\ dbThrows
        /\ pc' = [pc EXCEPT ![j] = "catch"]
        /\ UNCHANGED <<tasks, loopI>>
  /\ UNCHANGED taskResults
  /\ handlerFrame

\* simulate*: after the work, either returns or throws (Math.random() < rate)
simulateEnd(j, throws) ==
  /\ pc[j] = "simulate"
  /\ loopI[j] >= totalOperations(j)
  /\ pc' = [pc EXCEPT ![j] = IF throws THEN "catch" ELSE "completed"]
  /\ UNCHANGED <<tasks, taskResults, loopI, dbErrors>>
  /\ handlerFrame

\* a handler that marks the task completed without storing the result
processCompleted_noResult(j) ==
  /\ pc[j] = "completed"
  /\ tasks' = [tasks EXCEPT ![j] = updateTaskStatus(@, "completed",
                  [completedAt |-> TRUE])]
  /\ pc' = [pc EXCEPT ![j] = "saveResult"]
  /\ UNCHANGED <<taskResults, loopI, dbErrors>>
  /\ handlerFrame

\* updateTaskStatus(id, 'completed', {completedAt, result})
processCompleted(j) ==
  /\ pc[j] = "completed"
  /\ \/ /\ tasks' = [tasks EXCEPT ![j] = updateTaskStatus(@, "completed",
                        [completedAt |-> TRUE, result |-> TRUE])]
        /\ pc' = [pc EXCEPT ![j] = "saveResult"]
        /\ UNCHANGED dbErrors
     \/ /\ dbThrows
        /\ pc' = [pc EXCEPT ![j] = "catch"]
        /\ UNCHANGED tasks
  /\ UNCHANGED <<taskResults, loopI>>
  /\ handlerFrame

\* saveTaskResult(result) of the try block
processSaveResult(j) ==
  /\ pc[j] = "saveResult"
  /\ \/ /\ taskResults' = [taskResults EXCEPT ![j] = saveTaskResult(@,
                        [success |-> TRUE, attempts |-> jobs[j].attemptsMade + 1])]
        /\ pc' = [pc EXCEPT ![j] = "return"]
        /\ UNCHANGED dbErrors
     \/ /\ dbThrows
        /\ pc' = [pc EXCEPT ![j] = "catch"]
        /\ UNCHANGED taskResults
  /\ UNCHANGED <<tasks, loopI>>
  /\ handlerFrame

\* a catch block that writes dead once the attempts are used up
processFailed_dead(j) ==
  /\ pc[j] = "catch"
  /\ tasks' = [tasks EXCEPT ![j] = updateTaskStatus(@,
                  IF jobs[j].attemptsMade + 1 >= jobs[j].attempts THEN "dead" ELSE "failed",
                  [failedAt |-> TRUE, error |-> TRUE])]
  /\ pc' = [pc EXCEPT ![j] = "saveError"]
  /\ UNCHANGED <<taskResults, loopI, dbErrors>>
  /\ handlerFrame

\* catch block: updateTaskStatus(id, 'failed', {failedAt, error}); when it
\* throws, the catch block is left and saveTaskResult is skipped
processFailed(j) ==
  /\ pc[j] = "catch"
  /\ \/ /\ tasks' = [tasks EXCEPT ![j] = updateTaskStatus(@, "failed",
                        [failedAt |-> TRUE, error |-> TRUE])]
        /\ pc' = [pc EXCEPT ![j] = "saveError"]
        /\ UNCHANGED dbErrors
     \/ /\ dbThrows
        /\ pc' = [pc EXCEPT ![j] = "throw"]
        /\ UNCHANGED tasks
  /\ UNCHANGED <<taskResults, loopI>>
  /\ handlerFrame

\* catch block: saveTaskResult(errorResult), then throw error
processSaveError(j) ==
  /\ pc[j] = "saveError"
  /\ \/ /\ taskResults' = [taskResults EXCEPT ![j] = saveTaskResult(@,
                        [success |-> FALSE, attempts |-> jobs[j].attemptsMade + 1])]
        /\ UNCHANGED dbErrors
     \/ /\ dbThrows
        /\ UNCHANGED taskResults
  /\ pc' = [pc EXCEPT ![j] = "throw"]
  /\ UNCHANGED <<tasks, loopI>>
  /\ handlerFrame

\* the handler returned: Bull moveToCompleted
moveToCompleted(j) ==
  /\ pc[j] = "return"
  /\ active' = [active EXCEPT ![typeOf(j)] = @ \ {j}]
  /\ completed' = [completed EXCEPT ![typeOf(j)] = @ \cup {j}]
  /\ pc' = [pc EXCEPT ![j] = "idle"]
  /\ loopI' = [loopI EXCEPT ![j] = 0]
  /\ UNCHANGED <<tasks, taskResults, jobs, wait, paused, priority, delayed,
                 failed, metaPaused, dbErrors, retryCalls, worker, apiVars, backoffJob, producer>>

\* the handler threw: Bull job.moveToFailed. attemptsMade is incremented;
\* while attemptsMade < opts.attempts the job is retried, after the backoff
\* delay (moveToDelayed) or at once when the delay is 0 (retryJob: LPUSH);
\* otherwise it goes to failed.
moveToFailed(j) ==
  /\ pc[j] = "throw"
  /\ LET t == typeOf(j)
         made == jobs[j].attemptsMade + 1
         retry == made < jobs[j].attempts
         delay == backoffDelay(t, made)
     IN /\ jobs' = [jobs EXCEPT ![j].attemptsMade = made]
        /\ active' = [active EXCEPT ![t] = @ \ {j}]
        /\ delayed' = IF retry /\ delay > 0 THEN [delayed EXCEPT ![t] = @ \cup {j}] ELSE delayed
        /\ failed' = IF retry THEN failed ELSE [failed EXCEPT ![t] = Append(@, j)]
        /\ wait' = IF retry /\ delay = 0 /\ ~targetIsPaused(t)
                     THEN [wait EXCEPT ![t] = lpush(@, j)] ELSE wait
        /\ paused' = IF retry /\ delay = 0 /\ targetIsPaused(t)
                       THEN [paused EXCEPT ![t] = lpush(@, j)] ELSE paused
  /\ pc' = [pc EXCEPT ![j] = "idle"]
  /\ loopI' = [loopI EXCEPT ![j] = 0]
  /\ UNCHANGED <<tasks, taskResults, priority, completed, metaPaused,
                 dbErrors, retryCalls, worker, apiVars, backoffJob, producer>>

\* Bull updateDelaySet: a delayed job whose delay has elapsed is moved to
\* wait (or paused) with a priority add
updateDelaySet(j) ==
  /\ jobs[j] # NoJob
  /\ j \in delayed[typeOf(j)]
  /\ LET t == typeOf(j)
         cnt == priorityCount(t, jobs[j].priority)
     IN /\ delayed' = [delayed EXCEPT ![t] = @ \ {j}]
        /\ priority' = [priority EXCEPT ![t] = @ \cup {j}]
        /\ IF targetIsPaused(t)
             THEN /\ paused' = [paused EXCEPT ![t] = priorityInsert(@, cnt, j)]
                  /\ wait' = wait
             ELSE /\ wait' = [wait EXCEPT ![t] = priorityInsert(@, cnt, j)]
                  /\ paused' = paused
  /\ UNCHANGED <<tasks, taskResults, jobs, active, failed, completed,
                 metaPaused, pc, loopI, dbErrors, retryCalls, worker, apiVars, backoffJob, producer>>

\* pauseQueue that only sets the flag and leaves the waiting jobs in wait
pauseQueue_flagOnly(t) ==
  /\ metaPaused' = [metaPaused EXCEPT ![t] = TRUE]
  /\ UNCHANGED <<tasks, taskResults, jobs, wait, paused, priority, active, delayed,
                 failed, completed, pc, loopI, dbErrors, retryCalls, worker, apiVars, backoffJob, producer>>

\* pauseQueue that also stops the active jobs and puts them back in line
pauseQueue_interrupt(t) ==
  /\ paused' = [paused EXCEPT ![t] =
                  retryAll(IF wait[t] # <<>> THEN wait[t] ELSE @,
                           SetToSeq(active[t]))]
  /\ wait' = [wait EXCEPT ![t] = <<>>]
  /\ active' = [active EXCEPT ![t] = {}]
  /\ pc' = [j \in JobIds |-> IF j \in active[t] THEN "idle" ELSE pc[j]]
  /\ metaPaused' = [metaPaused EXCEPT ![t] = TRUE]
  /\ UNCHANGED <<tasks, taskResults, jobs, priority, delayed,
                 failed, completed, loopI, dbErrors, retryCalls, worker, apiVars, backoffJob, producer>>

\* pauseQueue that renames wait to paused without looking whether wait
\* exists: the paused list is replaced by the (empty) wait list
pauseQueue_rename(t) ==
  /\ paused' = [paused EXCEPT ![t] = wait[t]]
  /\ wait' = [wait EXCEPT ![t] = <<>>]
  /\ metaPaused' = [metaPaused EXCEPT ![t] = TRUE]
  /\ UNCHANGED <<tasks, taskResults, jobs, priority, active, delayed,
                 failed, completed, pc, loopI, dbErrors, retryCalls, worker, apiVars, backoffJob, producer>>

\* QueueManager.pauseQueue: queue.pause() of Bull, global: RENAME wait to
\* paused when wait exists, SET meta-paused
pauseQueue(t) ==
  /\ paused' = [paused EXCEPT ![t] = IF wait[t] # <<>> THEN wait[t] ELSE @]
  /\ wait' = [wait EXCEPT ![t] = <<>>]
  /\ metaPaused' = [metaPaused EXCEPT ![t] = TRUE]
  /\ UNCHANGED <<tasks, taskResults, jobs, priority, active, delayed,
                 failed, completed, pc, loopI, dbErrors, retryCalls, worker, apiVars, backoffJob, producer>>

\* QueueManager.resumeQueue: queue.resume() of Bull: RENAME paused to wait
\* when paused exists, DEL meta-paused
resumeQueue(t) ==
  /\ wait' = [wait EXCEPT ![t] = IF paused[t] # <<>> THEN paused[t] ELSE @]
  /\ paused' = [paused EXCEPT ![t] = <<>>]
  /\ metaPaused' = [metaPaused EXCEPT ![t] = FALSE]
  /\ UNCHANGED <<tasks, taskResults, jobs, priority, active, delayed,
                 failed, completed, pc, loopI, dbErrors, retryCalls, worker, apiVars, backoffJob, producer>>

\* QueueManager.getQueueStats: the lengths of getWaiting() (wait and paused
\* lists of Bull), getActive(), getCompleted(), getFailed(), getDelayed(),
\* and paused: 0
getQueueStats(t) ==
  [waiting |-> Len(wait[t]) + Len(paused[t]),
   active |-> Cardinality(active[t]),
   completed |-> Cardinality(completed[t]),
   failed |-> Len(failed[t]),
   delayed |-> Cardinality(delayed[t]),
   paused |-> 0]

\* retriedCount, the value retryFailedJobs returns: one for every job of
\* getFailed() of every queue processed
RECURSIVE retriedCount(_)
retriedCount(queuesToProcess) ==
  IF queuesToProcess = {} THEN 0
  ELSE LET t == CHOOSE q \in queuesToProcess : TRUE
       IN Len(failed[t]) + retriedCount(queuesToProcess \ {t})

\* retryFailedJobs that re-queues the failed jobs and leaves them in failed
retryFailedJobs_keepFailed(queuesToProcess) ==
  /\ retryCalls < MaxRetryCalls
  /\ retryCalls' = retryCalls + 1
  /\ LET failedJobs(t) == Reverse(failed[t])
         retried == UNION {SeqToSet(failed[t]) : t \in queuesToProcess}
     IN /\ wait' = [t \in TaskTypes |->
                      IF t \in queuesToProcess /\ ~targetIsPaused(t)
                        THEN retryAll(wait[t], failedJobs(t)) ELSE wait[t]]
        /\ paused' = [t \in TaskTypes |->
                        IF t \in queuesToProcess /\ targetIsPaused(t)
                          THEN retryAll(paused[t], failedJobs(t)) ELSE paused[t]]
        /\ jobs' = [j \in JobIds |-> IF j \in retried THEN [jobs[j] EXCEPT !.retriedOn = TRUE]
                                      ELSE jobs[j]]
  /\ UNCHANGED <<tasks, taskResults, priority, active, delayed, failed, completed,
                 metaPaused, pc, loopI, dbErrors, worker, apiVars, backoffJob, producer>>

\* QueueManager.retryFailedJobs(taskType?): the given queue, or every queue
retryFailedJobs(queuesToProcess) ==
  /\ retryCalls < MaxRetryCalls
  /\ retryCalls' = retryCalls + 1
  /\ LET failedJobs(t) == Reverse(failed[t])
         retried == UNION {SeqToSet(failed[t]) : t \in queuesToProcess}
     IN /\ wait' = [t \in TaskTypes |->
                      IF t \in queuesToProcess /\ ~targetIsPaused(t)
                        THEN retryAll(wait[t], failedJobs(t)) ELSE wait[t]]
        /\ paused' = [t \in TaskTypes |->
                        IF t \in queuesToProcess /\ targetIsPaused(t)
                          THEN retryAll(paused[t], failedJobs(t)) ELSE paused[t]]
        /\ failed' = [t \in TaskTypes |-> IF t \in queuesToProcess THEN <<>> ELSE failed[t]]
        /\ jobs' = [j \in JobIds |-> IF j \in retried THEN [jobs[j] EXCEPT !.retriedOn = TRUE]
                                      ELSE jobs[j]]
  /\ UNCHANGED <<tasks, taskResults, priority, active, delayed, completed,
                 metaPaused, pc, loopI, dbErrors, worker, apiVars, backoffJob, producer>>

\* job.retry() of Bull rejects when the job is no longer in the failed set,
\* is locked, or Redis fails. throwsAt[t] is the position, in getFailed() of
\* queue t, of the job whose retry() rejects (0: none does; always 0 for a
\* queue that is not processed). The jobs before it are retried; the catch of
\* the queue's try block ends the inner loop.
ThrowsAt == [TaskTypes -> 0..MaxJobs]

retriedJobs(t, throwsAt) ==
  LET failedJobs == Reverse(failed[t])
      n == IF throwsAt[t] = 0 \/ throwsAt[t] > Len(failedJobs)
             THEN Len(failedJobs) ELSE throwsAt[t] - 1
  IN SubSeq(failedJobs, 1, n)

\* retriedCount of a call in which some job.retry() may reject
RECURSIVE retriedCountWithErrors(_, _)
retriedCountWithErrors(queuesToProcess, throwsAt) ==
  IF queuesToProcess = {} THEN 0
  ELSE LET t == CHOOSE q \in queuesToProcess : TRUE
       IN Len(retriedJobs(t, throwsAt))
            + retriedCountWithErrors(queuesToProcess \ {t}, throwsAt)

\* retryFailedJobs without the try block around each queue: the first
\* rejection ends the call
retryFailedJobsWithErrors_abort(queuesToProcess, throwsAt) ==
  /\ \A t \in TaskTypes :
       throwsAt[t] <= IF t \in queuesToProcess THEN Len(failed[t]) ELSE 0
  /\ retryCalls < MaxRetryCalls
  /\ retryCalls' = retryCalls + 1
  /\ LET first == "image_processing"
         aborted == first \in queuesToProcess /\ throwsAt[first] # 0
                      /\ throwsAt[first] <= Len(failed[first])
         processed == IF aborted THEN {first} ELSE queuesToProcess
         retried == UNION {SeqToSet(retriedJobs(t, throwsAt)) : t \in processed}
         kept(j) == j \notin retried
     IN /\ wait' = [t \in TaskTypes |->
                      IF t \in processed /\ ~targetIsPaused(t)
                        THEN retryAll(wait[t], retriedJobs(t, throwsAt)) ELSE wait[t]]
        /\ paused' = [t \in TaskTypes |->
                        IF t \in processed /\ targetIsPaused(t)
                          THEN retryAll(paused[t], retriedJobs(t, throwsAt)) ELSE paused[t]]
        /\ failed' = [t \in TaskTypes |-> SelectSeq(failed[t], kept)]
        /\ jobs' = [j \in JobIds |-> IF j \in retried THEN [jobs[j] EXCEPT !.retriedOn = TRUE]
                                      ELSE jobs[j]]
  /\ UNCHANGED <<tasks, taskResults, priority, active, delayed, completed,
                 metaPaused, pc, loopI, dbErrors, worker, apiVars, backoffJob, producer>>

\* QueueManager.retryFailedJobs(taskType?) with rejections of job.retry():
\* every queue of queuesToProcess is processed, each inside its own try
\* block, and retriedCount is incremented after each retry() that resolved
retryFailedJobsWithErrors(queuesToProcess, throwsAt) ==
  /\ \A t \in TaskTypes :
       throwsAt[t] <= IF t \in queuesToProcess THEN Len(failed[t]) ELSE 0
  /\ retryCalls < MaxRetryCalls
  /\ retryCalls' = retryCalls + 1
  /\ LET retried == UNION {SeqToSet(retriedJobs(t, throwsAt)) : t \in queuesToProcess}
         kept(j) == j \notin retried
     IN /\ wait' = [t \in TaskTypes |->
                      IF t \in queuesToProcess /\ ~targetIsPaused(t)
                        THEN retryAll(wait[t], retriedJobs(t, throwsAt)) ELSE wait[t]]
        /\ paused' = [t \in TaskTypes |->
                        IF t \in queuesToProcess /\ targetIsPaused(t)
                          THEN retryAll(paused[t], retriedJobs(t, throwsAt)) ELSE paused[t]]
        /\ failed' = [t \in TaskTypes |-> SelectSeq(failed[t], kept)]
        /\ jobs' = [j \in JobIds |-> IF j \in retried THEN [jobs[j] EXCEPT !.retriedOn = TRUE]
                                      ELSE jobs[j]]
  /\ UNCHANGED <<tasks, taskResults, priority, active, delayed, completed,
                 metaPaused, pc, loopI, dbErrors, worker, apiVars, backoffJob, producer>>

\* ------------------------------------------------------ worker process
\* Bull settings.maxStalledCount, not set by new Bull(name, redisConfig)
maxStalledCount == 1

\* the orders in which the members of a set can be taken
Orderings(S) == {s \in [1..Cardinality(S) -> S] : SeqToSet(s) = S}

\* RPUSH: the job is claimed next
rpush(list, j) == <<j>> \o list

\* the process ends: its handlers end with it, wherever they are
processExit ==
  /\ pc' = [j \in JobIds |-> "idle"]
  /\ loopI' = [j \in JobIds |-> 0]
  /\ UNCHANGED <<tasks, taskResults, jobs, wait, paused, priority, active,
                 delayed, failed, completed, metaPaused, dbErrors, retryCalls, apiVars, backoffJob, producer>>

\* a shutdown that records an outcome for the jobs it cuts off
shutdown_fabricate ==
  /\ worker = "running"
  /\ worker' = "exited"
  /\ tasks' = [j \in JobIds |->
                 IF pc[j] # "idle" THEN [tasks[j] EXCEPT !.status = "completed"]
                 ELSE tasks[j]]
  /\ pc' = [j \in JobIds |-> "idle"]
  /\ loopI' = [j \in JobIds |-> 0]
  /\ UNCHANGED <<taskResults, jobs, wait, paused, priority, active,
                 delayed, failed, completed, metaPaused, dbErrors, retryCalls, apiVars, backoffJob, producer>>

\* SIGTERM or SIGINT in the process started by src/worker.ts. Two listeners
\* are registered for the signal: the one of Worker.setupGracefulShutdown
\* (the Worker is constructed on import) and the one of startWorker. The
\* first calls Worker.stop, which sets isRunning to false and awaits
\* queue.close(); the second calls Worker.stop, which returns at once
\* because isRunning is false, and then process.exit(0) in the same turn of
\* the event loop. The process exits with its handlers wherever they are;
\* nothing is written to the store or to Redis.
shutdown ==
  /\ worker = "running"
  /\ worker' = "exited"
  /\ processExit

\* the worker process is killed (SIGKILL, crash of the host)
crash ==
  /\ worker = "running"
  /\ worker' = "killed"
  /\ processExit

\* the worker process is started again: Worker.start, setupQueueProcessors.
\* Nothing is read from the store.
start ==
  /\ worker # "running"
  /\ worker' = "running"
  /\ UNCHANGED <<tasks, taskResults, jobs, wait, paused, priority, active,
                 delayed, failed, completed, metaPaused, pc, loopI,
                 dbErrors, retryCalls, apiVars, backoffJob, producer>>

\* Bull moveUnlockedJobsToWait, run by queue.process at start and then
\* periodically: every job of active whose lock has expired (no running
\* handler renews it) gets stalledCounter + 1 and goes back to the head of
\* wait (or paused), or to failed once stalledCounter > maxStalledCount.
\* attemptsMade and the store are not touched; the 'stalled' listener of
\* QueueManager only logs.
RECURSIVE rpushAll(_, _)
rpushAll(list, stalledJobs) ==
  IF stalledJobs = <<>> THEN list
  ELSE rpushAll(rpush(list, Head(stalledJobs)), Tail(stalledJobs))

moveUnlockedJobsToWait(t) ==
  /\ worker = "running"
  /\ LET unlocked == {j \in active[t] : pc[j] = "idle"}
         tooOften == {j \in unlocked : jobs[j].stalledCounter + 1 > maxStalledCount}
     IN /\ unlocked # {}
        /\ \E back \in Orderings(unlocked \ tooOften), out \in Orderings(tooOften) :
             /\ wait' = IF targetIsPaused(t) THEN wait
                        ELSE [wait EXCEPT ![t] = rpushAll(@, back)]
             /\ paused' = IF targetIsPaused(t)
                            THEN [paused EXCEPT ![t] = rpushAll(@, back)]
                          ELSE paused
             /\ failed' = [failed EXCEPT ![t] = @ \o out]
        /\ active' = [active EXCEPT ![t] = @ \ unlocked]
        /\ jobs' = [j \in JobIds |->
                      IF j \in unlocked
                        THEN [jobs[j] EXCEPT !.stalledCounter = @ + 1]
                      ELSE jobs[j]]
  /\ UNCHANGED <<tasks, taskResults, priority, delayed, completed, metaPaused,
                 pc, loopI, dbErrors, retryCalls, worker, apiVars, backoffJob, producer>>

\* the next step of the handler of job j
handlerStep(j) ==
  \/ processStart(j) \/ simulateProgress(j)
  \/ \E throws \in BOOLEAN : simulateEnd(j, throws)
  \/ processCompleted(j) \/ processSaveResult(j) \/ processFailed(j)
  \/ processSaveError(j) \/ moveToCompleted(j) \/ moveToFailed(j)

\* ------------------------------------------------------- specification
Next ==
  \/ \E t \in TaskTypes, p \in Priorities, ops \in 1..MaxOperations : addTask(t, p, ops)
  \/ \E t \in TaskTypes : moveToActive(t)
  \/ \E j \in JobIds : processStart(j)
  \/ \E j \in JobIds : simulateProgress(j)
  \/ \E j \in JobIds, throws \in BOOLEAN : simulateEnd(j, throws)
  \/ \E j \in JobIds : processCompleted(j)
  \/ \E j \in JobIds : processSaveResult(j)
  \/ \E j \in JobIds : processFailed(j)
  \/ \E j \in JobIds : processSaveError(j)
  \/ \E j \in JobIds : moveToCompleted(j)
  \/ \E j \in JobIds : moveToFailed(j)
  \/ \E j \in JobIds : updateDelaySet(j)
  \/ \E t \in TaskTypes : pauseQueue(t)
  \/ \E t \in TaskTypes : resumeQueue(t)
  \/ \E qs \in {{t} : t \in TaskTypes} \cup {TaskTypes} : retryFailedJobs(qs)

Spec == Init /\ [][Next]_vars

\* the system with the life of the worker process: signals, kills, restarts
\* and the recovery of stalled jobs by Bull; the admin operations (pause,
\* resume, retry-failed) are left to Spec
NextWorker ==
  \/ \E t \in TaskTypes, p \in Priorities, ops \in 1..MaxOperations : addTask(t, p, ops)
  \/ \E t \in TaskTypes : moveToActive(t)
  \/ \E j \in JobIds : handlerStep(j)
  \/ \E j \in JobIds : updateDelaySet(j)
  \/ crash
  \/ shutdown
  \/ start
  \/ \E t \in TaskTypes : moveUnlockedJobsToWait(t)

SpecWorker == Init /\ [][NextWorker]_vars

\* the worker alone with image tasks of several operations, so that an
\* attempt writes more than one progress value
NextProgress ==
  \/ \E t \in TaskTypes, p \in Priorities, ops \in 1..MaxProgressOperations :
       addTask(t, p, ops)
  \/ \E t \in TaskTypes : moveToActive(t)
  \/ \E j \in JobIds : handlerStep(j)
  \/ \E j \in JobIds : updateDelaySet(j)

SpecProgress == Init /\ [][NextProgress]_vars

\* the worker and the retry-failed call, with rejections of job.retry()
NextRetry ==
  \/ \E t \in TaskTypes, p \in Priorities, ops \in 1..MaxOperations : addTask(t, p, ops)
  \/ \E t \in TaskTypes : moveToActive(t)
  \/ \E j \in JobIds : handlerStep(j)
  \/ \E j \in JobIds : updateDelaySet(j)
  \/ \E qs \in {{t} : t \in TaskTypes} \cup {TaskTypes}, throwsAt \in ThrowsAt :
       retryFailedJobsWithErrors(qs, throwsAt)

SpecRetry == Init /\ [][NextRetry]_vars

\* ------------------------------------------------------ retry backoff
\* One job followed through its failed attempts, with the options addTask
\* gives it: attempts = maxRetries, backoff = {type: backoffType, delay:
\* retryDelay}. The values are those of config.queues.
BackoffTypes == {"fixed", "exponential"}
RetryDelays == {3000, 5000, 10000, 15000, 60000}

queuesVars == <<tasks, taskResults, jobs, wait, paused, priority, active, delayed,
                failed, completed, metaPaused, pc, loopI, dbErrors, retryCalls, worker>>

InitBackoff ==
  /\ InitQueues
  /\ server = "serving"
  /\ response = "none"
  /\ reachable = [db |-> TRUE, redis |-> TRUE]
  /\ backoffJob \in [opts : [attempts : 1..MaxBackoffAttempts,
                              backoff : [type : BackoffTypes, delay : RetryDelays]],
                      attemptsMade : {0}, state : {"active"}, delay : {0}]
  /\ producer = NoProducer

\* Job.moveToFailed of Bull: attemptsMade++, then a retry after
\* backoffs.calculate(opts.backoff, attemptsMade) while attemptsMade <
\* opts.attempts, otherwise the failed set
backoffMoveToFailed ==
  /\ backoffJob # NoJob
  /\ backoffJob.state = "active"
  /\ LET made == backoffJob.attemptsMade + 1
         delay == calculate(backoffJob.opts.backoff, made)
     IN backoffJob' =
          IF made < backoffJob.opts.attempts
            THEN [backoffJob EXCEPT !.attemptsMade = made, !.delay = delay,
                                    !.state = IF delay > 0 THEN "delayed" ELSE "wait"]
            ELSE [backoffJob EXCEPT !.attemptsMade = made, !.state = "failed"]
  /\ UNCHANGED <<queuesVars, apiVars, producer>>

\* updateDelaySet: the delay has elapsed
backoffUpdateDelaySet ==
  /\ backoffJob # NoJob
  /\ backoffJob.state = "delayed"
  /\ backoffJob' = [backoffJob EXCEPT !.state = "wait"]
  /\ UNCHANGED <<queuesVars, apiVars, producer>>

\* the worker claims the job for its next attempt
backoffMoveToActive ==
  /\ backoffJob # NoJob
  /\ backoffJob.state = "wait"
  /\ backoffJob' = [backoffJob EXCEPT !.state = "active"]
  /\ UNCHANGED <<queuesVars, apiVars, producer>>

NextBackoff ==
  \/ backoffMoveToFailed
  \/ backoffUpdateDelaySet
  \/ backoffMoveToActive

SpecBackoff == InitBackoff /\ [][NextBackoff]_vars

\* ----------------------------------------------------------- producer
\* Producer.generateRandomTask: queueManager.addTask of a task of a random
\* type and priority; an error of addTask is caught and logged
generateRandomTask(t, p, ops) ==
  \E id \in JobIds :
    /\ tasks[id] = NoTask /\ jobs[id] = NoJob
    /\ \A k \in JobIds : k < id => tasks[k] # NoTask \/ jobs[k] # NoJob
    /\ LET task == [type |-> t, priority |-> p, status |-> "waiting", operations |-> ops]
       IN \/ /\ tasks' = [tasks EXCEPT ![id] = createTask(task)]
             /\ queueAdd(id, task, t)
             /\ UNCHANGED dbErrors
          \/ /\ dbThrows
             /\ UNCHANGED <<tasks, jobs, wait, paused, priority>>

producerFrame ==
  UNCHANGED <<taskResults, active, delayed, failed, completed, metaPaused, pc, loopI,
              retryCalls, worker, apiVars, backoffJob>>

\* Producer.start and startProducing: isRunning = true, setInterval, and one
\* call of generateRandomTask that is neither awaited nor counted
startProducing ==
  /\ ~producer.started
  /\ producer.maxTasks > 0
  /\ producer' = [producer EXCEPT !.started = TRUE, !.isRunning = TRUE,
                                  !.interval = TRUE, !.first = TRUE]
  /\ UNCHANGED <<tasks, jobs, wait, paused, priority, dbErrors>>
  /\ producerFrame

\* the call of generateRandomTask made by startProducing
producerFirst ==
  /\ producer.first
  /\ producer' = [producer EXCEPT !.first = FALSE]
  /\ \E t \in TaskTypes, p \in Priorities, ops \in 1..MaxOperations :
       generateRandomTask(t, p, ops)
  /\ producerFrame

\* Producer.stop: isRunning = false, clearInterval
producerStop ==
  /\ producer.isRunning
  /\ producer' = [producer EXCEPT !.isRunning = FALSE, !.interval = FALSE]
  /\ UNCHANGED <<tasks, jobs, wait, paused, priority, dbErrors>>
  /\ producerFrame

\* the callback of setInterval: stop once taskCount has reached maxTasks,
\* otherwise generateRandomTask and taskCount++
producerTick ==
  /\ producer.interval /\ producer.isRunning
  /\ IF producer.maxTasks > 0 /\ producer.taskCount >= producer.maxTasks
       THEN producerStop
       ELSE /\ \E t \in TaskTypes, p \in Priorities, ops \in 1..MaxOperations :
                 generateRandomTask(t, p, ops)
            /\ producer' = [producer EXCEPT !.taskCount = @ + 1]
            /\ producerFrame

InitProducer ==
  /\ InitQueues
  /\ server = "serving"
  /\ response = "none"
  /\ reachable = [db |-> TRUE, redis |-> TRUE]
  /\ backoffJob = NoJob
  /\ producer \in [started : {FALSE}, isRunning : {FALSE}, taskCount : {0},
                    maxTasks : 1..MaxProducerTasks, interval : {FALSE}, first : {FALSE}]

NextProducer ==
  \/ startProducing
  \/ producerFirst
  \/ producerTick
  \/ producerStop
  \/ \E t \in TaskTypes : moveToActive(t)
  \/ \E j \in JobIds : handlerStep(j)
  \/ \E j \in JobIds : updateDelaySet(j)

SpecProducer == InitProducer /\ [][NextProducer]_vars

\* ---------------------------------------------------------- API server
\* The type field of a request body: a registered type, another string, or
\* nothing ("" stands for undefined).
RequestTypes == TaskTypes \cup {"unknown_type", ""}

\* The priority field of a request body as express.json hands it over:
\* absent, a number (in tenths, so that 55 is 5.5) or a string.
PriorityInputs ==
  {[kind |-> "absent", tenths |-> 0, text |-> ""]}
    \cup {[kind |-> "number", tenths |-> n, text |-> ""] : n \in {0, 10, 55, 100, 110}}
    \cup {[kind |-> "string", tenths |-> 0, text |-> x] : x \in {"7", "abc"}}

Requests == [type : RequestTypes, priority : PriorityInputs, data : BOOLEAN,
             operations : 1..MaxOperations]

\* const { type, priority = 5, data } = req.body
priorityOf(body) ==
  IF body.priority.kind = "absent"
    THEN [kind |-> "number", tenths |-> 10 * DefaultPriority, text |-> ""]
    ELSE body.priority

\* ToNumber of JavaScript, applied by < and > to their operands
NaN == [nan |-> TRUE, tenths |-> 0]
ToNumber(v) ==
  IF v.kind = "number" THEN [nan |-> FALSE, tenths |-> v.tenths]
  ELSE IF v.text = "7" THEN [nan |-> FALSE, tenths |-> 70]
  ELSE NaN

\* v < n and v > n of JavaScript: false when an operand is NaN
lessThan(v, n) == ~ToNumber(v).nan /\ ToNumber(v).tenths < 10 * n
greaterThan(v, n) == ~ToNumber(v).nan /\ ToNumber(v).tenths > 10 * n

\* the three checks of POST /tasks; TRUE when the route answers 400
validationFails(body) ==
  \/ body.type = "" \/ ~body.data
  \/ body.type \notin TaskTypes
  \/ lessThan(priorityOf(body), 1) \/ greaterThan(priorityOf(body), 10)

\* column priority INTEGER: the text of the parameter must be an integer
\* literal ("5.5" and "abc" are invalid input for type integer)
integerInput(v) ==
  \/ v.kind = "number" /\ v.tenths % 10 = 0
  \/ v.kind = "string" /\ v.text = "7"

\* the value the column takes
integerValue(v) == ToNumber(v).tenths \div 10

\* the next free id (uuidv4() of the route)
uuidv4(id) ==
  /\ tasks[id] = NoTask /\ jobs[id] = NoJob
  /\ \A k \in JobIds : k < id => tasks[k] # NoTask \/ jobs[k] # NoJob

brokerVars == <<jobs, wait, paused, priority, active, delayed, failed, completed,
                metaPaused>>

\* POST /tasks that inserts and enqueues before it validates
postTasks_enqueueFirst(body) ==
  /\ server = "serving"
  /\ reachable.db /\ reachable.redis
  /\ body.type \in TaskTypes
  /\ \E id \in JobIds :
       /\ uuidv4(id)
       /\ LET task == [type |-> body.type, priority |-> DefaultPriority,
                       status |-> "waiting", operations |-> body.operations]
          IN /\ tasks' = [tasks EXCEPT ![id] = createTask(task)]
             /\ queueAdd(id, task, body.type)
  /\ response' = IF validationFails(body) THEN "400" ELSE "201"
  /\ UNCHANGED <<taskResults, active, delayed, failed, completed, metaPaused,
                 pc, loopI, dbErrors, retryCalls, worker, server, reachable, backoffJob, producer>>

\* POST /tasks: validation (400), then queueManager.addTask (201), with 500
\* for whatever addTask throws. createTask throws when the database is
\* unreachable or refuses the priority; with Redis unreachable the row is
\* inserted and queue.add does not succeed: the request fails or stays open.
postTasks(body) ==
  /\ server = "serving"
  /\ LET p == priorityOf(body) IN
     IF validationFails(body)
       THEN /\ response' = "400"
            /\ UNCHANGED <<tasks, brokerVars>>
     ELSE IF ~reachable.db \/ ~integerInput(p)
       THEN /\ response' = "500"
            /\ UNCHANGED <<tasks, brokerVars>>
     ELSE \E id \in JobIds :
            /\ uuidv4(id)
            /\ LET task == [type |-> body.type, priority |-> integerValue(p),
                            status |-> "waiting", operations |-> body.operations]
               IN /\ tasks' = [tasks EXCEPT ![id] = createTask(task)]
                  /\ IF reachable.redis
                       THEN /\ queueAdd(id, task, body.type)
                            /\ response' = "201"
                            /\ UNCHANGED <<active, delayed, failed, completed, metaPaused>>
                       ELSE /\ response' \in {"500", "none"}
                            /\ UNCHANGED brokerVars
  /\ UNCHANGED <<taskResults, pc, loopI, dbErrors, retryCalls, worker, server,
                 reachable, backoffJob, producer>>

\* addTask that writes over an existing row and enqueues again
addTaskWithId_upsert(id, t, p, ops) ==
  /\ reachable.db /\ reachable.redis
  /\ LET task == [type |-> t, priority |-> p, status |-> "waiting", operations |-> ops]
     IN /\ tasks' = [tasks EXCEPT ![id] = createTask(task)]
        /\ queueAdd(id, task, t)
  /\ response' = "returned"
  /\ UNCHANGED <<taskResults, active, delayed, failed, completed, metaPaused,
                 pc, loopI, dbErrors, retryCalls, worker, server, reachable, backoffJob, producer>>

\* QueueManager.addTask called with a task that carries its id (task.id ||
\* uuidv4()): the INSERT of createTask violates the primary key when the id
\* exists, createTask and addTask rethrow and queue.add is not reached
addTaskWithId(id, t, p, ops) ==
  /\ reachable.db /\ reachable.redis
  /\ IF tasks[id] # NoTask
       THEN /\ response' = "thrown"
            /\ UNCHANGED <<tasks, brokerVars>>
       ELSE /\ jobs[id] = NoJob
            /\ LET task == [type |-> t, priority |-> p, status |-> "waiting",
                            operations |-> ops]
               IN /\ tasks' = [tasks EXCEPT ![id] = createTask(task)]
                  /\ queueAdd(id, task, t)
            /\ response' = "returned"
            /\ UNCHANGED <<active, delayed, failed, completed, metaPaused>>
  /\ UNCHANGED <<taskResults, pc, loopI, dbErrors, retryCalls, worker, server,
                 reachable, backoffJob, producer>>

\* the taskType parameter of the path of a pause or resume request
PathTypes == TaskTypes \cup {"unknown_type"}

apiFrame ==
  UNCHANGED <<tasks, taskResults, jobs, priority, active, delayed, failed, completed,
              pc, loopI, dbErrors, retryCalls, worker, server, reachable, backoffJob,
              producer>>

\* a pause route that pauses every queue
postPause_all(taskType) ==
  /\ server = "serving"
  /\ reachable.redis
  /\ taskType \in TaskTypes
  /\ paused' = [t \in TaskTypes |-> IF wait[t] # <<>> THEN wait[t] ELSE paused[t]]
  /\ wait' = [t \in TaskTypes |-> <<>>]
  /\ metaPaused' = [t \in TaskTypes |-> TRUE]
  /\ response' = "200"
  /\ apiFrame

\* POST /admin/queues/:taskType/pause: 400 for an unknown type, otherwise
\* queueManager.pauseQueue (queue.pause() of Bull), 500 when it throws
postPause(taskType) ==
  /\ server = "serving"
  /\ IF taskType \notin TaskTypes
       THEN /\ response' = "400"
            /\ UNCHANGED <<wait, paused, metaPaused>>
     ELSE IF ~reachable.redis
       THEN /\ response' \in {"500", "none"}
            /\ UNCHANGED <<wait, paused, metaPaused>>
     ELSE /\ paused' = [paused EXCEPT ![taskType] =
                          IF wait[taskType] # <<>> THEN wait[taskType] ELSE @]
          /\ wait' = [wait EXCEPT ![taskType] = <<>>]
          /\ metaPaused' = [metaPaused EXCEPT ![taskType] = TRUE]
          /\ response' = "200"
  /\ apiFrame

\* POST /admin/queues/:taskType/resume: 400 for an unknown type, otherwise
\* queueManager.resumeQueue (queue.resume() of Bull), 500 when it throws
postResume(taskType) ==
  /\ server = "serving"
  /\ IF taskType \notin TaskTypes
       THEN /\ response' = "400"
            /\ UNCHANGED <<wait, paused, metaPaused>>
     ELSE IF ~reachable.redis
       THEN /\ response' \in {"500", "none"}
            /\ UNCHANGED <<wait, paused, metaPaused>>
     ELSE /\ wait' = [wait EXCEPT ![taskType] =
                        IF paused[taskType] # <<>> THEN paused[taskType] ELSE @]
          /\ paused' = [paused EXCEPT ![taskType] = <<>>]
          /\ metaPaused' = [metaPaused EXCEPT ![taskType] = FALSE]
          /\ response' = "200"
  /\ apiFrame

\* ApiServer.start, called by startServer: only the database is tested; a
\* failure is rethrown and startServer ends the process with exit code 1
apiStart ==
  /\ server = "starting"
  /\ server' = IF reachable.db THEN "serving" ELSE "exit1"
  /\ UNCHANGED <<queuesVars, response, reachable, backoffJob, producer>>

\* SIGTERM / SIGINT of src/index.ts: apiServer.stop(), then process.exit(0)
apiShutdown ==
  /\ server = "serving"
  /\ server' = "exit0"
  /\ UNCHANGED <<queuesVars, response, reachable, backoffJob, producer>>

InitApi ==
  /\ InitQueues
  /\ server = "starting"
  /\ response = "none"
  /\ reachable \in [db : BOOLEAN, redis : BOOLEAN]
  /\ backoffJob = NoJob
  /\ producer = NoProducer

NextApi ==
  \/ apiStart
  \/ apiShutdown
  \/ \E body \in Requests : postTasks(body)
  \/ \E id \in JobIds, t \in TaskTypes, p \in Priorities, ops \in 1..MaxOperations :
       addTaskWithId(id, t, p, ops)
  \/ \E taskType \in PathTypes : postPause(taskType)
  \/ \E taskType \in PathTypes : postResume(taskType)

SpecApi == InitApi /\ [][NextApi]_vars

\* ----------------------------------------------------- claim vocabulary
created(j) == tasks[j] # NoTask
running(t) == {j \in JobIds : jobs[j] # NoJob /\ typeOf(j) = t /\ pc[j] # "idle"}
waitingJobs(t) == SeqToSet(wait[t]) \cup SeqToSet(paused[t])
lastRow(j) == taskResults[j][Len(taskResults[j])]
lastAttemptFailed(j) ==
  /\ taskResults[j] # <<>>
  /\ lastRow(j).attempts = tasks[j].attempts
  /\ ~lastRow(j).success
allRowsFailed(j) == \A k \in 1..Len(taskResults[j]) : ~taskResults[j][k].success

\* the job state machine of the specification
StateMachine ==
  {<<"none", "waiting">>, <<"waiting", "active">>, <<"active", "completed">>,
   <<"active", "delayed">>, <<"active", "failed">>, <<"delayed", "waiting">>,
   <<"failed", "waiting">>, <<"failed", "dead">>}

\* C1: every change of a job's durable status is a transition of the state
\* machine waiting -> active -> {completed | delayed | failed},
\* delayed -> waiting, failed -> waiting, failed -> dead; in particular never
\* failed -> active.
C1_StatusPath ==
  [][\A j \in JobIds :
       tasks'[j].status # tasks[j].status
         => <<tasks[j].status, tasks'[j].status>> \in StateMachine]_vars

\* C2: completed is terminal: once the durable status of a job is completed,
\* no step changes it.
C2_CompletedTerminal ==
  [][\A j \in JobIds :
       tasks[j].status = "completed" => tasks'[j].status = "completed"]_vars

\* C3: the durable attempts counter never exceeds the durable max_retries + 1,
\* and when it equals max_retries + 1 and that attempt failed the durable
\* status is dead.
C3_AttemptsBound ==
  \A j \in JobIds :
    created(j) =>
      /\ tasks[j].attempts <= tasks[j].maxRetries + 1
      /\ (tasks[j].attempts = tasks[j].maxRetries + 1 /\ lastAttemptFailed(j)
            /\ pc[j] = "idle")
           => tasks[j].status = "dead"

\* C4: a job of a queue with max_retries = m whose handler failed on every
\* execution, and that Bull has stopped retrying, was executed exactly m + 1
\* times, has status dead and m + 1 result rows, all with success = false.
C4_RetriesExhausted ==
  \A t \in TaskTypes : \A j \in SeqToSet(failed[t]) :
    (~jobs[j].retriedOn /\ allRowsFailed(j) /\ dbErrors = 0) =>
      /\ jobs[j].attemptsMade = config[t].maxRetries + 1
      /\ tasks[j].status = "dead"
      /\ Len(taskResults[j]) = config[t].maxRetries + 1

\* C5: a job the worker is done with (Bull has moved it to completed, or to
\* failed, where no worker takes it up again) has a terminal durable status,
\* completed or dead. This is what "every accepted job eventually has a
\* terminal status" requires of the states in which a job comes to rest.
C5_RestsTerminal ==
  \A t \in TaskTypes : \A j \in SeqToSet(failed[t]) \cup completed[t] :
    tasks[j].status \in {"completed", "dead"}

\* C6: while no attempt of a job is in progress, the job has as many result
\* rows as its durable attempts counter says, the k-th row carrying attempt
\* number k.
C6_RowsEqualAttempts ==
  \A j \in JobIds :
    (created(j) /\ pc[j] = "idle") =>
      /\ Len(taskResults[j]) = tasks[j].attempts
      /\ \A k \in 1..Len(taskResults[j]) : taskResults[j][k].attempts = k

C8_PriorityOrder ==
  [][\A t \in TaskTypes :
       /\ \A j \in active'[t] \ active[t] : \A k \in SeqToSet(wait'[t]) :
            /\ jobs[k].priority >= jobs[j].priority
            /\ (jobs[k].priority = jobs[j].priority
                  /\ jobs[k].attemptsMade = 0 /\ ~jobs[k].retriedOn
                  /\ jobs[j].attemptsMade = 0 /\ ~jobs[j].retriedOn) => j < k
       /\ (\E j \in JobIds : ~created(j) /\ created(j)')
            => active'[t] = active[t] /\ pc' = pc]_vars

\* C9: while a queue is paused no job of it is claimed: the active set does
\* not grow, and every waiting job stays waiting with its durable status
\* unchanged.
C9_PausedNoClaim ==
  [][\A t \in TaskTypes :
       metaPaused[t] =>
         /\ active'[t] \subseteq active[t]
         /\ \A j \in waitingJobs(t) :
              /\ j \in SeqToSet(wait'[t]) \cup SeqToSet(paused'[t])
              /\ tasks'[j] = tasks[j]
              /\ pc'[j] = "idle"]_vars

\* C9 witness: a paused queue holds two waiting jobs while all its
\* processing slots are free.
C9_Witness ==
  \E t \in TaskTypes :
    /\ metaPaused[t]
    /\ Len(paused[t]) = 2
    /\ active[t] = {}
    /\ \A j \in SeqToSet(paused[t]) : tasks[j].status = "waiting"

\* C10: pausing or resuming a queue leaves the active jobs as they are: the
\* active sets, the handler positions, the store; and a running handler can
\* always take its next step, whether its queue is paused or not.
C10_ActiveUntouched ==
  /\ [][(\E t \in TaskTypes : metaPaused'[t] # metaPaused[t])
          => /\ active' = active /\ pc' = pc /\ loopI' = loopI
             /\ tasks' = tasks /\ taskResults' = taskResults
             /\ delayed' = delayed /\ failed' = failed /\ completed' = completed]_vars
  /\ [](\A j \in JobIds : pc[j] # "idle" => ENABLED handlerStep(j))

\* C10 witness: a job active when its queue was paused has run to its
\* outcome during the pause: the queue is paused, a job submitted during the
\* pause is held back, and the other job has finished its attempt.
C10_Witness ==
  \E t \in TaskTypes : \E j \in JobIds :
    /\ metaPaused[t]
    /\ jobs[j] # NoJob /\ typeOf(j) = t
    /\ pc[j] = "return"
    /\ paused[t] # <<>>

\* C11: pausing is idempotent and reversible. Pausing a paused queue changes
\* nothing. Pausing a running queue holds its waiting jobs, in their order,
\* in paused; resuming puts the held jobs back in wait in the same order and
\* clears the pause, and a waiting job of an unpaused queue can be claimed
\* whenever the worker has a free slot, so the held jobs drain.
C11_PauseIdempotent ==
  /\ [][\A t \in TaskTypes :
          /\ (metaPaused[t] /\ pauseQueue(t)) => UNCHANGED vars
          /\ (~metaPaused[t] /\ pauseQueue(t)) =>
                /\ paused'[t] = wait[t] /\ wait'[t] = <<>> /\ metaPaused'[t]
          /\ (metaPaused[t] /\ resumeQueue(t)) =>
                /\ wait'[t] = paused[t] /\ paused'[t] = <<>> /\ ~metaPaused'[t]]_vars
  /\ [](\A t \in TaskTypes :
          /\ metaPaused[t] => wait[t] = <<>>
          /\ ~metaPaused[t] => paused[t] = <<>>
          /\ (~metaPaused[t] /\ wait[t] # <<>> /\ worker = "running"
                /\ Cardinality(active[t]) < config[t].concurrency)
               => ENABLED moveToActive(t))

\* C11 witness: a paused queue holds a job while a job of it is delayed: a
\* second pause finds jobs to keep, and the retry that falls due during the
\* pause is held with them.
C11_Witness ==
  \E t \in TaskTypes :
    /\ metaPaused[t]
    /\ paused[t] # <<>>
    /\ delayed[t] # {}

\* the arguments of retryFailedJobs: one task type, or none (every queue)
RetrySelections == {{t} : t \in TaskTypes} \cup {TaskTypes}

\* a job Bull has stopped retrying: attemptsMade has reached opts.attempts
exhausted(j) == jobs[j].attemptsMade >= jobs[j].attempts

C13_DeadNotRetried ==
  [][\A qs \in RetrySelections :
       retryFailedJobs(qs) =>
         /\ \A t \in qs : \A j \in SeqToSet(failed[t]) :
              exhausted(j) =>
                /\ j \in SeqToSet(failed'[t])
                /\ j \notin SeqToSet(wait'[t]) \cup SeqToSet(paused'[t])
                /\ jobs'[j] = jobs[j]
                /\ tasks'[j] = tasks[j]
         /\ retriedCount(qs) =
              Cardinality({j \in UNION {SeqToSet(failed[t]) : t \in qs} : ~exhausted(j)})]_vars

\* the jobs of a queue whose durable status is active
durableActive(t) == {j \in JobIds : created(j) /\ tasks[j].type = t /\ tasks[j].status = "active"}

\* C14: the broker does not advance past a store write that failed. A job
\* without a durable record is not in the broker; a job at rest whose record
\* still says waiting (the write of active did not happen) is still waiting
\* in the broker; a job at rest whose record still says active (the write
\* of its outcome did not happen) is still in the broker's active set.
C14_BrokerWaitsForStore ==
  \A j \in JobIds :
    /\ ~created(j) => jobs[j] = NoJob
    /\ (created(j) /\ jobs[j] # NoJob /\ pc[j] = "idle") =>
         /\ tasks[j].status = "waiting" => j \in waitingJobs(typeOf(j))
         /\ tasks[j].status = "active" => j \in active[typeOf(j)]

\* C15: the status and the result row of an attempt are stored together: in
\* every state a record with status completed has a last result row with
\* success = true, a record with status failed has a last result row with
\* success = false, and a last row with success = true belongs to a record
\* with status completed, one with success = false to a record with status
\* failed (or active, when the next attempt has started).
C15_AtomicAttempt ==
  \A j \in JobIds :
    created(j) =>
      /\ tasks[j].status = "completed" => (taskResults[j] # <<>> /\ lastRow(j).success)
      /\ tasks[j].status = "failed" => (taskResults[j] # <<>> /\ ~lastRow(j).success)
      /\ (taskResults[j] # <<>> /\ lastRow(j).success) => tasks[j].status = "completed"
      /\ (taskResults[j] # <<>> /\ ~lastRow(j).success) => tasks[j].status \in {"failed", "active"}

\* C16: for each queue, the number of jobs with durable status active and
\* the size of the broker's active set differ by at most one.
C16_ActiveCount ==
  \A t \in TaskTypes :
    Cardinality(durableActive(t)) - Cardinality(active[t]) \in -1..1

\* C17: the store tells where a job is in the broker: a job in wait, paused
\* or delayed has durable status waiting or delayed, a job in failed has
\* durable status failed.
C17_StoreAuthoritative ==
  \A t \in TaskTypes :
    /\ \A j \in waitingJobs(t) \cup delayed[t] : tasks[j].status \in {"waiting", "delayed"}
    /\ \A j \in SeqToSet(failed[t]) : tasks[j].status = "failed"

\* C18: crash recovery. When a job whose attempt was cut off by the end of
\* the worker process (its record says active) is executed again after the
\* restart, the new attempt is counted: the durable attempts counter goes up
\* by one. And no job is left with durable status active for good: a job
\* that Bull has put in failed, where no worker takes it up, does not have
\* the durable status active (store errors aside).
C18_CrashRecovery ==
  /\ [][\A j \in JobIds :
          (/\ pc[j] = "start" /\ pc'[j] = "simulate"
           /\ jobs[j].stalledCounter > 0
           /\ tasks[j].status = "active")
            => tasks'[j].attempts = tasks[j].attempts + 1]_vars
  /\ [](dbErrors = 0 =>
          \A t \in TaskTypes : \A j \in SeqToSet(failed[t]) :
            tasks[j].status # "active")

\* C19: after SIGINT or SIGTERM the worker process does not exit while a
\* handler is in flight: in the step in which the process exits on a signal
\* every handler has returned.
C19_GracefulExit ==
  [][(worker = "running" /\ worker' = "exited") => \A j \in JobIds : pc[j] = "idle"]_vars

C21_ProgressMonotone ==
  [][\A j \in JobIds :
       (created(j) /\ pc[j] \notin {"idle", "start"} /\ pc'[j] # "idle") =>
         /\ tasks'[j].progress >= tasks[j].progress
         /\ tasks'[j].progress \in 0..100]_vars

\* C22: the write that makes an attempt active sets started_at and resets
\* progress to 0, and (no store error having occurred) increments attempts by
\* exactly one.
C22_ActiveResets ==
  [][\A j \in JobIds :
       (pc[j] = "start" /\ pc'[j] = "simulate") =>
         /\ tasks'[j].startedAt
         /\ tasks'[j].progress = 0
         /\ dbErrors = 0 => tasks'[j].attempts = tasks[j].attempts + 1]_vars

\* C23: after the k-th failed attempt of a job that is retried, the delay
\* before the next attempt is retry_delay_ms with a fixed backoff and
\* retry_delay_ms * 2^(k-1) with an exponential one, and never more than
\* 10 minutes.
C23_BackoffDelay ==
  (backoffJob # NoJob /\ backoffJob.state = "delayed") =>
    LET k == backoffJob.attemptsMade
        b == backoffJob.opts.backoff
    IN /\ backoffJob.delay = IF b.type = "fixed" THEN b.delay
                             ELSE b.delay * pow2(k - 1)
       /\ backoffJob.delay <= 10 * 60 * 1000

\* what the contract accepts: a registered type, data present, and a
\* priority that is absent or an integer in 1..10
validRequest(body) ==
  /\ body.type \in TaskTypes
  /\ body.data
  /\ \/ body.priority.kind = "absent"
     \/ /\ body.priority.kind = "number"
        /\ body.priority.tenths % 10 = 0
        /\ body.priority.tenths \div 10 \in 1..10

\* C24: with the store and the broker reachable, POST /tasks accepts a
\* request (201) exactly when its type is registered, data is present and
\* its priority is absent or an integer in 1..10, and rejects every other
\* request with 400.
C24_Validation ==
  [][\A body \in Requests :
       (postTasks(body) /\ reachable.db /\ reachable.redis) =>
         /\ response' = "201" <=> validRequest(body)
         /\ ~validRequest(body) => response' = "400"]_vars

\* C25: a submission answered with 400 leaves the store and every broker
\* set as they were.
C25_RejectedNoEffect ==
  [][\A body \in Requests :
       (postTasks(body) /\ response' = "400") =>
         UNCHANGED <<tasks, taskResults, brokerVars>>]_vars

C25_Witness ==
  /\ response = "400"
  /\ \E j \in JobIds : created(j) /\ j \in SeqToSet(wait[tasks[j].type])
  /\ \E j \in JobIds : ~created(j)

\* the status a handler position asks updateTaskStatus to write
statusWritten(j) ==
  CASE pc[j] = "start" -> "active"
    [] pc[j] = "completed" -> "completed"
    [] pc[j] = "catch" -> "failed"
    [] OTHER -> tasks[j].status

\* C26: a status update that asks for a transition the state machine
\* forbids leaves the stored row unchanged and is reported to the caller:
\* the handler that made the call continues in its error path, never in its
\* normal path.
C26_ForbiddenRejected ==
  [][\A j \in JobIds :
       (/\ created(j)
        /\ pc[j] \in {"start", "completed", "catch"}
        /\ pc'[j] # pc[j]
        /\ statusWritten(j) # tasks[j].status
        /\ <<tasks[j].status, statusWritten(j)>> \notin StateMachine) =>
         /\ tasks'[j] = tasks[j]
         /\ pc'[j] \in {"catch", "throw"}]_vars

\* C27: addTask with an id that exists in the store throws, leaves the
\* existing row unchanged and enqueues nothing.
C27_DuplicateId ==
  [][\A id \in JobIds, t \in TaskTypes, p \in Priorities, ops \in 1..MaxOperations :
       (tasks[id] # NoTask /\ addTaskWithId(id, t, p, ops)) =>
         /\ response' = "thrown"
         /\ tasks'[id] = tasks[id]
         /\ UNCHANGED <<tasks, taskResults, brokerVars>>]_vars

C27_Witness ==
  /\ response = "thrown"
  /\ \E j \in JobIds : created(j) /\ jobs[j] # NoJob

\* a job whose first execution has returned normally
firstSuccess(j) ==
  /\ jobs[j] # NoJob
  /\ jobs[j].attemptsMade = 0 /\ ~jobs[j].retriedOn /\ jobs[j].stalledCounter = 0
  /\ pc[j] = "return" \/ j \in completed[typeOf(j)]

\* C28: a job whose handler succeeds on its first execution has durable
\* status completed, attempts = 1, a result and exactly one result row,
\* which has success = true; the write that completes it raises the
\* completed count of the metrics by exactly one.
C28_FirstSuccess ==
  [][\A j \in JobIds :
       /\ firstSuccess(j)' =>
            /\ tasks'[j].status = "completed"
            /\ tasks'[j].attempts = 1
            /\ tasks'[j].result
            /\ Len(taskResults'[j]) = 1
            /\ taskResults'[j][1].success
       /\ (jobs[j] # NoJob /\ jobs[j].attemptsMade = 0 /\ ~jobs[j].retriedOn
             /\ pc[j] = "completed" /\ pc'[j] = "saveResult") =>
            getMetrics.completedTasks' = getMetrics.completedTasks + 1]_vars

C28_Witness ==
  \E j \in JobIds :
    /\ firstSuccess(j)
    /\ j \in completed[typeOf(j)]
    /\ getMetrics.completedTasks = 1

\* the number of stored jobs with a given status
statusCount(status) ==
  Cardinality({j \in JobIds : created(j) /\ tasks[j].status = status})

\* C29: the metrics are computed from the durable status counts: pending =
\* waiting + active + delayed, success rate = 100 * completed / (completed +
\* failed), 0 when completed + failed = 0, and always within 0..100.
C29_Metrics ==
  LET m == getMetrics
      c == statusCount("completed")
      f == statusCount("failed")
  IN /\ m.pendingTasks = statusCount("waiting") + statusCount("active")
                           + statusCount("delayed")
     /\ m.successRate.den > 0
     /\ IF c + f = 0 THEN m.successRate.num = 0
        ELSE m.successRate.num * (c + f) = 100 * c * m.successRate.den
     /\ 0 <= m.successRate.num /\ m.successRate.num <= 100 * m.successRate.den

C29_Witness ==
  /\ statusCount("completed") = 1
  /\ statusCount("failed") = 1
  /\ getMetrics.successRate.num * 2 = 100 * getMetrics.successRate.den

\* C30: the API server serves only when the database and Redis were
\* reachable at startup, and ends with exit code 1 when one of them was not;
\* exit code 0 is that of a shutdown by a signal.
C30_StartupFailure ==
  /\ server = "serving" => (reachable.db /\ reachable.redis)
  /\ server = "exit1" => ~(reachable.db /\ reachable.redis)
  /\ server = "exit0" => (reachable.db /\ reachable.redis)

\* the broker sets of its queue a job is in
inBroker(j) ==
  /\ jobs[j] # NoJob
  /\ j \in waitingJobs(typeOf(j)) \cup active[typeOf(j)] \cup delayed[typeOf(j)]
            \cup SeqToSet(failed[typeOf(j)]) \cup completed[typeOf(j)]

\* C32: the paused field of getQueueStats tells whether the queue is
\* paused, next to the cardinalities of the waiting, active, delayed and
\* failed sets.
C32_StatsPaused ==
  \A t \in TaskTypes :
    LET stats == getQueueStats(t)
    IN /\ (stats.paused # 0) <=> metaPaused[t]
       /\ stats.waiting = Cardinality(waitingJobs(t))
       /\ stats.active = Cardinality(active[t])
       /\ stats.delayed = Cardinality(delayed[t])
       /\ stats.failed = Len(failed[t])

\* C33: the durable status of every job is waiting, active, completed or
\* failed; delayed, paused and dead are never written.
C33_StatusValues ==
  \A j \in JobIds :
    created(j) => tasks[j].status \in {"waiting", "active", "completed", "failed"}

C33_Witness ==
  /\ retryCalls > 0
  /\ \E t \in TaskTypes : metaPaused[t]
  /\ \E j \in JobIds : inBroker(j) /\ j \in delayed[typeOf(j)] /\ tasks[j].status = "failed"

\* C34: every job in a broker set has a durable record with the same id.
C34_BrokerHasRecord ==
  \A j \in JobIds : (jobs[j] # NoJob \/ inBroker(j)) => created(j)

C34_Witness ==
  /\ dbErrors > 0
  /\ \E j \in JobIds : inBroker(j) /\ j \in SeqToSet(failed[typeOf(j)]) /\ created(j)
  /\ \E j \in JobIds : inBroker(j) /\ j \in waitingJobs(typeOf(j)) /\ created(j)

\* a job that waits and has never been claimed
neverClaimed(j) ==
  /\ jobs[j] # NoJob
  /\ jobs[j].attemptsMade = 0 /\ ~jobs[j].retriedOn /\ jobs[j].stalledCounter = 0
  /\ j \in waitingJobs(typeOf(j))

\* C39: a job whose durable status is completed has started_at and
\* completed_at set, a result and attempts >= 1; a job whose durable status
\* is waiting and that was never claimed has attempts = 0 and no result row.
C39_RecordShape ==
  \A j \in JobIds :
    /\ (created(j) /\ tasks[j].status = "completed") =>
         /\ tasks[j].startedAt /\ tasks[j].completedAt
         /\ tasks[j].result
         /\ tasks[j].attempts >= 1
    /\ (created(j) /\ tasks[j].status = "waiting" /\ neverClaimed(j)) =>
         /\ tasks[j].attempts = 0
         /\ taskResults[j] = <<>>

C39_Witness ==
  /\ \E j \in JobIds : created(j) /\ tasks[j].status = "completed"
  /\ \E j \in JobIds : created(j) /\ tasks[j].status = "waiting" /\ neverClaimed(j)

\* the tasks the store holds, all of them accepted by addTask
acceptedTasks == {j \in JobIds : created(j)}

\* C38: a producer started with maxTasks = n > 0 submits at most n tasks,
\* and its taskCount equals the number of tasks addTask accepted.
C38_ProducerCount ==
  (producer.maxTasks > 0 /\ ~producer.first) =>
    /\ Cardinality(acceptedTasks) + dbErrors <= producer.maxTasks
    /\ producer.taskCount = Cardinality(acceptedTasks)

\* C35: submission is all-or-nothing: a task whose submission failed has
\* neither a durable record nor a broker entry, so every durable record in
\* status waiting is in a broker set.
C35_AllOrNothing ==
  \A j \in JobIds :
    (created(j) /\ tasks[j].status = "waiting") => inBroker(j)

\* what belongs to queue t
queueState(t) ==
  <<wait[t], paused[t], metaPaused[t], priority[t], active[t], delayed[t], failed[t],
    completed[t]>>

\* C37: a pause or resume request for queue t changes only queue t: the
\* pause state and the sets of every other queue, and with them what the
\* worker may claim there, stay as they were; a request with an unknown
\* type is answered with 400 and changes no queue.
C37_PauseFrame ==
  [][\A taskType \in PathTypes :
       (postPause(taskType) \/ postResume(taskType)) =>
         /\ \A u \in TaskTypes \ {taskType} : queueState(u)' = queueState(u)
         /\ UNCHANGED <<tasks, taskResults, jobs>>
         /\ taskType \notin TaskTypes => response' = "400"]_vars

C37_Witness ==
  /\ response = "200"
  /\ \E t, u \in TaskTypes :
       /\ metaPaused[t] /\ paused[t] # <<>>
       /\ ~metaPaused[u] /\ wait[u] # <<>>

\* a queue the worker can claim from: a job waits and a handler slot is free
claimable(t) ==
  /\ worker = "running"
  /\ wait[t] # <<>>
  /\ Cardinality(active[t]) < config[t].concurrency

\* C31: a handler error never stops the worker. When a handler execution
\* ends with an error, the attempt is recorded (durable status failed and a
\* result row of this attempt with success = false), the job is handed to
\* the retry decision (it is delayed, waiting again, or failed), and the
\* worker goes on claiming: whenever a queue is claimable, the claim step is
\* enabled.
C31_HandlerErrorContained ==
  [][/\ \A j \in JobIds :
          (pc[j] = "throw" /\ pc'[j] = "idle") =>
            /\ tasks'[j].status = "failed"
            /\ taskResults'[j] # <<>>
            /\ ~taskResults'[j][Len(taskResults'[j])].success
            /\ taskResults'[j][Len(taskResults'[j])].attempts = jobs'[j].attemptsMade
            /\ j \in delayed'[typeOf(j)] \cup SeqToSet(failed'[typeOf(j)])
                      \cup SeqToSet(wait'[typeOf(j)]) \cup SeqToSet(paused'[typeOf(j)])
            /\ worker' = "running"
     /\ \A t \in TaskTypes : claimable(t) => ENABLED moveToActive(t)]_vars

\* the failed jobs of all queues
RECURSIVE failedCount(_)
failedCount(queues) ==
  IF queues = {} THEN 0
  ELSE LET t == CHOOSE q \in queues : TRUE
       IN Len(failed[t]) + failedCount(queues \ {t})

\* C36: retryFailedJobs returns the number of jobs it moved from failed
\* back to waiting. It touches only the queues it is called for; a
\* rejection of job.retry() in one queue neither counts the job that was
\* not retried nor keeps the other queues from being processed: every
\* queue without a rejection ends with an empty failed set.
C36_RetryCount ==
  [][\A qs \in RetrySelections, throwsAt \in ThrowsAt :
       retryFailedJobsWithErrors(qs, throwsAt) =>
         /\ retriedCountWithErrors(qs, throwsAt) = failedCount(TaskTypes) - failedCount(TaskTypes)'
         /\ retriedCountWithErrors(qs, throwsAt) =
              Cardinality({j \in JobIds : jobs[j] # NoJob
                             /\ j \in SeqToSet(failed[typeOf(j)])
                             /\ j \in waitingJobs(typeOf(j))'})
         /\ \A t \in TaskTypes \ qs : queueState(t)' = queueState(t)
         /\ \A t \in qs :
              throwsAt[t] = 0 => failed'[t] = <<>>]_vars

C36_Witness ==
  /\ retryCalls > 0
  /\ \E t, u \in TaskTypes :
       /\ t # u
       /\ failed[t] # <<>>
       /\ \E j \in JobIds : jobs[j] # NoJob /\ jobs[j].retriedOn /\ typeOf(j) = u
                              /\ j \in waitingJobs(u)

====
